---- MODULE Spec2Model ----
(***************************************************************************)
(* caddy-slicervm: the VM state manager (state.go) and the idle watcher.   *)
(*                                                                         *)
(* Request goroutines run ServeHTTP = ensureRunning ; touchLastSeen.       *)
(* ensureRunning reads info.status, info.wakeCh, info.wakeErr and info.ip  *)
(* WITHOUT holding m.mu, so every such read is a step of its own, and the  *)
(* two critical sections that write several fields (initiateWake,          *)
(* finishWake) write them one field per step while holding the lock: an    *)
(* unlocked reader can run between two of those writes.  Critical          *)
(* sections whose only shared accesses are made by lock holders (lookup,   *)
(* touchLastSeen, idleApps, markPaused, getHostname) are one step each.    *)
(***************************************************************************)
EXTENDS Naturals, Integers, FiniteSets, Sequences, TLC

\* ---------------------------------------------------------------- bounds
NumKeys == 2
NumCallers == 2
MaxCalls == 3
MaxTime == 3

\* the watcher's idle timeout, in clock units (rs.IdleTimeout)
IdleTimeout == 1

Keys == 1..NumKeys
Callers == 1..NumCallers

\* ------------------------------------------------------------ vocabulary
\* vmStatus
statusUnknown == "Unknown"
statusRunning == "Running"
statusPaused == "Paused"
statusWaking == "Waking"
statusNotFound == "NotFound"

\* what GetHostGroupNodes can answer: a transport error, no node, or a first
\* node with one of the statuses of the control plane's vocabulary
DescribeResults == {"err", "none", "Running", "Paused", "Other"}

\* node.Hostname / node.IP of the first node of host group k
Hostname(k) == k
IP(k) == 100 + k

NoHost == 0
NoIP == 0
NilCh == 0
NilErr == 0
ZeroTime == 0

\* lock owners other than a caller
Free == 0
FwOwner == NumCallers + 1

VARIABLES
    vms,        \* m.vms: key -> index into recs, 0 when the key has no entry
    recs,       \* the vmInfo objects ever allocated, by index (the pointers)
    mu,         \* m.mu: Free, a caller inside initiateWake, or FwOwner
    now,        \* time.Now()
    closed,     \* the wake channels that have been closed
    nCh,        \* wake channels made so far
    resumeLog,  \* every ResumeVM call made so far: [id, key, ch]
    resumes,    \* doWake goroutines inside ResumeVM: [key, host, id]
    fw,         \* the doWake goroutine inside finishWake, or NoFw
    pc,         \* per caller: where it is in ServeHTTP/ensureRunning
    ckey,       \* per caller: appName
    cinfo,      \* per caller: info (index into recs)
    cnodes,     \* per caller: what GetHostGroupNodes returned
    cch,        \* per caller: the channel its select waits on
    ret,        \* per caller: what ensureRunning returned
    nCalls,     \* ensureRunning calls started so far
    cold,       \* per caller: the channel of the failed wake that had
                \* completed when its call started, else NilCh (bookkeeping)
    handler,    \* per caller: the handler it runs, "serve" (ServeHTTP) or
                \* "ask" (handleAsk)
    chanErr,    \* per closed channel: the err its finishWake was given
    panicked,   \* a close of a closed channel happened
    wpc,        \* the watcher goroutine
    wctx,       \* the watcher's ctx: "live" or "cancelled"
    registered, \* watcherCancels has an entry for rs
    idle,       \* the tick's idle list, what is left of it
    wkey        \* the key the tick is handling

vars == <<vms, recs, mu, now, closed, nCh, resumeLog, resumes, fw, pc, ckey, cinfo,
          cnodes, cch, ret, nCalls, cold, handler, chanErr, panicked, wpc,
          wctx,
          registered, idle, wkey>>

mgrVars == <<vms, recs, mu, closed, nCh, resumeLog, resumes, fw, chanErr, panicked>>
callerVars == <<pc, ckey, cinfo, cnodes, cch, ret, nCalls, cold, handler>>
watcherVars == <<wpc, wctx, registered, idle, wkey>>

NoFw == [key |-> 0, err |-> 0, at |-> "none"]
NoRet == [kind |-> "none", val |-> 0]

\* the record of key k (call only when vms[k] # 0)
Rec(k) == recs[vms[k]]
Has(k) == vms[k] # 0
StatusOf(k) == IF Has(k) THEN Rec(k).status ELSE "none"


\* ---------------------------------------------------------------- Init
\* newVMStateManager: an empty map; Provision then starts the idle watcher
Init ==
    /\ vms = [k \in Keys |-> 0]
    /\ recs = <<>>
    /\ mu = Free
    /\ now = 1
    /\ closed = {}
    /\ nCh = 0
    /\ resumeLog = {}
    /\ resumes = {}
    /\ fw = NoFw
    /\ pc = [c \in Callers |-> "idle"]
    /\ ckey = [c \in Callers |-> 1]
    /\ cinfo = [c \in Callers |-> 0]
    /\ cnodes = [c \in Callers |-> "unset"]
    /\ cch = [c \in Callers |-> NilCh]
    /\ ret = [c \in Callers |-> NoRet]
    /\ nCalls = 0
    /\ cold = [c \in Callers |-> NilCh]
    /\ handler = [c \in Callers |-> "serve"]
    /\ chanErr = {}
    /\ panicked = FALSE
    /\ wpc = "select"
    /\ wctx = "live"
    /\ registered = TRUE
    /\ idle = {}
    /\ wkey = 0

\* ------------------------------------------------------- request goroutine
\* how ensureRunning's results are written down
RetOk(ip) == [kind |-> "ok", val |-> ip]
RetErr(kind, e) == [kind |-> kind, val |-> e]

Return(c, r) ==
    /\ ret' = [ret EXCEPT ![c] = r]
    /\ pc' = [pc EXCEPT ![c] = "returned"]

\* the channel of key k's last wake when that wake has completed with an error
\* and nothing has touched the record since, else NilCh
FailedWake(k) ==
    IF /\ Has(k)
       /\ fw = NoFw
       /\ Rec(k).status = statusPaused
       /\ Rec(k).wakeErr # NilErr
       /\ Rec(k).wakeCh \in closed
    THEN Rec(k).wakeCh
    ELSE NilCh

\* ServeHTTP calls ensureRunning(ctx, appName, WakeTimeout), which calls lookup
Call(c, k) ==
    /\ pc[c] = "idle"
    /\ nCalls < MaxCalls
    /\ nCalls' = nCalls + 1
    /\ pc' = [pc EXCEPT ![c] = "lookup"]
    /\ ckey' = [ckey EXCEPT ![c] = k]
    /\ cold' = [cold EXCEPT ![c] = FailedWake(k)]
    /\ UNCHANGED <<mgrVars, now, cinfo, cnodes, cch, ret, handler, watcherVars>>

\* the answers of handleAsk
StatusOK == 200
StatusBadRequest == 400
StatusNotFound == 404
StatusInternalServerError == 500

Resp(code) == [kind |-> "http", val |-> code]

\* the domain parameter of an ask request that has none
NoDomain == 0

\* handleAsk: a request without domain parameter is answered 400, any other
\* calls lookup(ctx, domain)
AskCall(c, domain) ==
    /\ pc[c] = "idle"
    /\ nCalls < MaxCalls
    /\ nCalls' = nCalls + 1
    /\ handler' = [handler EXCEPT ![c] = "ask"]
    /\ IF domain = NoDomain
       THEN /\ Return(c, Resp(StatusBadRequest))
            /\ UNCHANGED ckey
       ELSE /\ pc' = [pc EXCEPT ![c] = "lookup"]
            /\ ckey' = [ckey EXCEPT ![c] = domain]
            /\ UNCHANGED ret
    /\ UNCHANGED <<mgrVars, now, cinfo, cnodes, cch, cold, watcherVars>>

\* what the caller of lookup does with lookup's error: ensureRunning returns
\* it, handleAsk answers 500
LookupFailed(c) ==
    IF handler[c] = "ask"
    THEN Resp(StatusInternalServerError)
    ELSE RetErr("lookup", 0)

\* (mutant) lookup that asks the control plane without looking at the cache
lookup_alwaysDescribe(c) ==
    /\ pc[c] = "lookup"
    /\ mu = Free
    /\ pc' = [pc EXCEPT ![c] = "describe"]
    /\ UNCHANGED <<mgrVars, now, ckey, cinfo, cnodes, cch, ret, nCalls, cold, handler,
                   watcherVars>>

\* lookup, first critical section: a cached record is returned, otherwise the
\* lock is dropped and GetHostGroupNodes is called
lookup(c) ==
    /\ pc[c] = "lookup"
    /\ mu = Free
    /\ IF Has(ckey[c])
       THEN /\ cinfo' = [cinfo EXCEPT ![c] = vms[ckey[c]]]
            /\ pc' = [pc EXCEPT ![c] = "switch"]
       ELSE /\ pc' = [pc EXCEPT ![c] = "describe"]
            /\ UNCHANGED cinfo
    /\ UNCHANGED <<mgrVars, now, ckey, cnodes, cch, ret, nCalls, cold, handler,
                   watcherVars>>

\* (mutant) a failed describe call leaves a NotFound record behind
describeReturn_cachesErr(c, r) ==
    /\ pc[c] = "describe"
    /\ IF r = "err"
       THEN /\ Return(c, LookupFailed(c))
            /\ IF Has(ckey[c])
               THEN UNCHANGED <<vms, recs>>
               ELSE /\ recs' = Append(recs,
                                 [hostname |-> NoHost, ip |-> NoIP,
                                  status |-> statusNotFound,
                                  lastSeen |-> ZeroTime,
                                  wakeCh |-> NilCh, wakeErr |-> NilErr])
                    /\ vms' = [vms EXCEPT ![ckey[c]] = Len(recs) + 1]
            /\ UNCHANGED cnodes
       ELSE /\ cnodes' = [cnodes EXCEPT ![c] = r]
            /\ pc' = [pc EXCEPT ![c] = "insert"]
            /\ UNCHANGED <<ret, vms, recs>>
    /\ UNCHANGED <<mu, closed, nCh, resumeLog, resumes, fw, chanErr, panicked,
                   now, ckey, cinfo, cch, nCalls, cold, handler, watcherVars>>

\* GetHostGroupNodes returns: an error ends lookup and ensureRunning
describeReturn(c, r) ==
    /\ pc[c] = "describe"
    /\ IF r = "err"
       THEN /\ Return(c, LookupFailed(c))
            /\ UNCHANGED cnodes
       ELSE /\ cnodes' = [cnodes EXCEPT ![c] = r]
            /\ pc' = [pc EXCEPT ![c] = "insert"]
            /\ UNCHANGED ret
    /\ UNCHANGED <<mgrVars, now, ckey, cinfo, cch, nCalls, cold, handler,
                   watcherVars>>

\* (mutant) a status switch without the Paused case
nodeStatus_pausedUnknown(r) ==
    CASE r = "none" -> statusNotFound
      [] r = "Running" -> statusRunning
      [] OTHER -> statusUnknown

\* the status lookup gives a new record (switch node.Status)
nodeStatus(r) ==
    CASE r = "none" -> statusNotFound
      [] r = "Running" -> statusRunning
      [] r = "Paused" -> statusPaused
      [] OTHER -> statusUnknown

\* the vmInfo lookup allocates for key k from describe result r
newInfo(k, r) ==
    IF r = "none"
    THEN [hostname |-> NoHost, ip |-> NoIP, status |-> statusNotFound,
          lastSeen |-> ZeroTime, wakeCh |-> NilCh, wakeErr |-> NilErr]
    ELSE [hostname |-> Hostname(k), ip |-> IP(k), status |-> nodeStatus(r),
          lastSeen |-> now, wakeCh |-> NilCh, wakeErr |-> NilErr]

\* (mutant) lookup's second critical section without the second check
lookupInsert_noRecheck(c) ==
    /\ pc[c] = "insert"
    /\ mu = Free
    /\ recs' = Append(recs, newInfo(ckey[c], cnodes[c]))
    /\ vms' = [vms EXCEPT ![ckey[c]] = Len(recs) + 1]
    /\ cinfo' = [cinfo EXCEPT ![c] = Len(recs) + 1]
    /\ pc' = [pc EXCEPT ![c] = "switch"]
    /\ UNCHANGED <<mu, now, closed, nCh, resumeLog, resumes, fw, chanErr, panicked,
                   ckey, cnodes, cch, ret, nCalls, cold, handler, watcherVars>>

\* lookup, second critical section: check again under lock, else insert
lookupInsert(c) ==
    /\ pc[c] = "insert"
    /\ mu = Free
    /\ IF Has(ckey[c])
       THEN /\ cinfo' = [cinfo EXCEPT ![c] = vms[ckey[c]]]
            /\ UNCHANGED <<vms, recs>>
       ELSE /\ recs' = Append(recs, newInfo(ckey[c], cnodes[c]))
            /\ vms' = [vms EXCEPT ![ckey[c]] = Len(recs) + 1]
            /\ cinfo' = [cinfo EXCEPT ![c] = Len(recs) + 1]
    /\ pc' = [pc EXCEPT ![c] = "switch"]
    /\ UNCHANGED <<mu, now, closed, nCh, resumeLog, resumes, fw, chanErr, panicked,
                   ckey, cnodes, cch, ret, nCalls, cold, handler, watcherVars>>

\* ensureRunning's switch on the status s it has read
switchStatus(c, s) ==
    CASE s = statusNotFound -> Return(c, RetErr("notfound", 0))
      [] s = statusRunning -> Return(c, RetOk(recs[cinfo[c]].ip))
      [] s = statusWaking ->
           /\ pc' = [pc EXCEPT ![c] = "waitEnter"]
           /\ UNCHANGED ret
      [] OTHER ->
           /\ pc' = [pc EXCEPT ![c] = "iwLock"]
           /\ UNCHANGED ret

\* what every ensureRunning step leaves alone
switchFrame ==
    UNCHANGED <<mgrVars, now, ckey, cinfo, cnodes, cch, nCalls, cold, handler,
                watcherVars>>

\* (mutant) a Running record is sent to initiateWake like a Paused one
ensureRunning_wakeRunning(c) ==
    /\ pc[c] = "switch"
    /\ handler[c] = "serve"
    /\ LET s == recs[cinfo[c]].status IN
       switchStatus(c, IF s = statusRunning THEN statusPaused ELSE s)
    /\ switchFrame

\* (mutant) a NotFound record is waited on like a Waking one
ensureRunning_waitNotFound(c) ==
    /\ pc[c] = "switch"
    /\ handler[c] = "serve"
    /\ LET s == recs[cinfo[c]].status IN
       switchStatus(c, IF s = statusNotFound THEN statusWaking ELSE s)
    /\ switchFrame

\* (mutant) a NotFound record is woken like an Unknown one
ensureRunning_wakeNotFound(c) ==
    /\ pc[c] = "switch"
    /\ handler[c] = "serve"
    /\ LET s == recs[cinfo[c]].status IN
       switchStatus(c, IF s = statusNotFound THEN statusUnknown ELSE s)
    /\ switchFrame

\* ensureRunning: switch info.status, read without the lock
ensureRunning(c) ==
    /\ pc[c] = "switch"
    /\ handler[c] = "serve"
    /\ switchStatus(c, recs[cinfo[c]].status)
    /\ switchFrame

\* (mutant) an ask endpoint that approves whatever record lookup returns
handleAsk_approvesAll(c) ==
    /\ pc[c] = "switch"
    /\ handler[c] = "ask"
    /\ Return(c, Resp(StatusOK))
    /\ switchFrame

\* handleAsk after lookup: info.status (read without the lock) decides between
\* 404 and 200
handleAsk(c) ==
    /\ pc[c] = "switch"
    /\ handler[c] = "ask"
    /\ IF recs[cinfo[c]].status = statusNotFound
       THEN Return(c, Resp(StatusNotFound))
       ELSE Return(c, Resp(StatusOK))
    /\ switchFrame

\* (mutant) initiateWake without the double-check under lock
initiateWake_noRecheck(c) ==
    /\ pc[c] = "iwLock"
    /\ mu = Free
    /\ recs' = [recs EXCEPT ![cinfo[c]].status = statusWaking]
    /\ mu' = c
    /\ pc' = [pc EXCEPT ![c] = "iwCh"]
    /\ UNCHANGED <<vms, now, closed, nCh, resumeLog, resumes, fw, chanErr,
                   panicked, ckey, cinfo, cnodes, cch, ret, nCalls, cold, handler,
                   watcherVars>>

\* initiateWake: lock, double-check, and the first write (info.status)
initiateWake(c) ==
    /\ pc[c] = "iwLock"
    /\ mu = Free
    /\ LET s == recs[cinfo[c]].status IN
       CASE s = statusWaking ->
              /\ pc' = [pc EXCEPT ![c] = "waitEnter"]
              /\ UNCHANGED <<ret, recs, mu>>
         [] s = statusRunning ->
              /\ Return(c, RetOk(recs[cinfo[c]].ip))
              /\ UNCHANGED <<recs, mu>>
         [] OTHER ->
              /\ recs' = [recs EXCEPT ![cinfo[c]].status = statusWaking]
              /\ mu' = c
              /\ pc' = [pc EXCEPT ![c] = "iwCh"]
              /\ UNCHANGED ret
    /\ UNCHANGED <<vms, now, closed, nCh, resumeLog, resumes, fw, chanErr, panicked,
                   ckey, cinfo, cnodes, cch, nCalls, cold, handler, watcherVars>>

\* (mutant) initiateWake that keeps the channel the record already has
initiateWakeCh_reusesCh(c) ==
    /\ pc[c] = "iwCh"
    /\ mu = c
    /\ IF recs[cinfo[c]].wakeCh = NilCh
       THEN /\ nCh' = nCh + 1
            /\ recs' = [recs EXCEPT ![cinfo[c]].wakeCh = nCh + 1]
       ELSE UNCHANGED <<nCh, recs>>
    /\ pc' = [pc EXCEPT ![c] = "iwErr"]
    /\ UNCHANGED <<vms, mu, now, closed, resumeLog, resumes, fw, chanErr, panicked,
                   ckey, cinfo, cnodes, cch, ret, nCalls, cold, handler,
                   watcherVars>>

\* initiateWake, still under lock: info.wakeCh = make(chan struct{})
initiateWakeCh(c) ==
    /\ pc[c] = "iwCh"
    /\ mu = c
    /\ nCh' = nCh + 1
    /\ recs' = [recs EXCEPT ![cinfo[c]].wakeCh = nCh + 1]
    /\ pc' = [pc EXCEPT ![c] = "iwErr"]
    /\ UNCHANGED <<vms, mu, now, closed, resumeLog, resumes, fw, chanErr, panicked,
                   ckey, cinfo, cnodes, cch, ret, nCalls, cold, handler,
                   watcherVars>>

\* (mutant) initiateWake that starts the resume and waits with the lock held
initiateWakeGo_keepsLock(c) ==
    /\ pc[c] = "iwErr"
    /\ mu = c
    /\ recs' = [recs EXCEPT ![cinfo[c]].wakeErr = NilErr]
    /\ LET id == Cardinality(resumeLog) + 1 IN
       /\ resumes' = resumes \cup {[key |-> ckey[c],
                                    host |-> recs[cinfo[c]].hostname,
                                    id |-> id]}
       /\ resumeLog' = resumeLog \cup {[id |-> id, key |-> ckey[c],
                                        ch |-> recs[cinfo[c]].wakeCh]}
    /\ pc' = [pc EXCEPT ![c] = "waitEnter"]
    /\ UNCHANGED <<vms, mu, now, closed, nCh, fw, chanErr, panicked, ckey, cinfo,
                   cnodes, cch, ret, nCalls, cold, handler, watcherVars>>

\* initiateWake: info.wakeErr = nil, read hostname, unlock, go m.doWake
initiateWakeGo(c) ==
    /\ pc[c] = "iwErr"
    /\ mu = c
    /\ recs' = [recs EXCEPT ![cinfo[c]].wakeErr = NilErr]
    /\ mu' = Free
    /\ LET id == Cardinality(resumeLog) + 1 IN
       /\ resumes' = resumes \cup {[key |-> ckey[c],
                                    host |-> recs[cinfo[c]].hostname,
                                    id |-> id]}
       /\ resumeLog' = resumeLog \cup {[id |-> id, key |-> ckey[c],
                                        ch |-> recs[cinfo[c]].wakeCh]}
    /\ pc' = [pc EXCEPT ![c] = "waitEnter"]
    /\ UNCHANGED <<vms, now, closed, nCh, fw, chanErr, panicked, ckey, cinfo,
                   cnodes, cch, ret, nCalls, cold, handler, watcherVars>>

\* waitForWake: the select evaluates info.wakeCh (no lock) and blocks
waitForWake(c) ==
    /\ pc[c] = "waitEnter"
    /\ cch' = [cch EXCEPT ![c] = recs[cinfo[c]].wakeCh]
    /\ pc' = [pc EXCEPT ![c] = "waiting"]
    /\ UNCHANGED <<mgrVars, now, ckey, cinfo, cnodes, ret, nCalls, cold, handler,
                   watcherVars>>

\* select case <-info.wakeCh: only a closed channel is ready (a nil one never)
wakeSignal(c) ==
    /\ pc[c] = "waiting"
    /\ cch[c] \in closed
    /\ pc' = [pc EXCEPT ![c] = "woken"]
    /\ UNCHANGED <<mgrVars, now, ckey, cinfo, cnodes, cch, ret, nCalls, cold, handler,
                   watcherVars>>

\* after the signal: read info.wakeErr, then info.ip (no lock)
wakeOutcome(c) ==
    /\ pc[c] = "woken"
    /\ LET e == recs[cinfo[c]].wakeErr IN
       IF e # NilErr
       THEN Return(c, RetErr("wakefailed", e))
       ELSE Return(c, RetOk(recs[cinfo[c]].ip))
    /\ UNCHANGED <<mgrVars, now, ckey, cinfo, cnodes, cch, nCalls, cold, handler,
                   watcherVars>>

\* (mutant) a timeout that also drops the key's in-flight resume
waitTimeout_abortsWake(c) ==
    /\ pc[c] = "waiting"
    /\ Return(c, RetErr("timeout", 0))
    /\ resumes' = {r \in resumes : r.key # ckey[c]}
    /\ UNCHANGED <<vms, recs, mu, closed, nCh, resumeLog, fw, chanErr, panicked,
                   now, ckey, cinfo, cnodes, cch, nCalls, cold, handler, watcherVars>>

\* (mutant) a select without the timer case
waitTimeout_never(c) ==
    /\ pc[c] = "waiting"
    /\ FALSE
    /\ UNCHANGED vars

\* select case <-timer.C
waitTimeout(c) ==
    /\ pc[c] = "waiting"
    /\ Return(c, RetErr("timeout", 0))
    /\ UNCHANGED <<mgrVars, now, ckey, cinfo, cnodes, cch, nCalls, cold, handler,
                   watcherVars>>

\* select case <-ctx.Done()
waitCancel(c) ==
    /\ pc[c] = "waiting"
    /\ Return(c, RetErr("cancelled", 0))
    /\ UNCHANGED <<mgrVars, now, ckey, cinfo, cnodes, cch, nCalls, cold, handler,
                   watcherVars>>

\* (mutant) a touch that also declares the record Running
touchLastSeen_marksRunning(k) ==
    IF Has(k)
    THEN [recs EXCEPT ![vms[k]].lastSeen = now, ![vms[k]].status = statusRunning]
    ELSE recs

\* m.touchLastSeen(appName)
touchLastSeen(k) ==
    IF Has(k) THEN [recs EXCEPT ![vms[k]].lastSeen = now] ELSE recs

\* ServeHTTP after ensureRunning: an error is answered, success touches;
\* handleAsk after its answer: the handler returns
serveDone(c) ==
    /\ pc[c] = "returned"
    /\ IF ret[c].kind = "ok"
       THEN /\ mu = Free
            /\ recs' = touchLastSeen(ckey[c])
       ELSE UNCHANGED recs
    /\ pc' = [pc EXCEPT ![c] = "idle"]
    /\ ckey' = [ckey EXCEPT ![c] = 1]
    /\ cinfo' = [cinfo EXCEPT ![c] = 0]
    /\ cnodes' = [cnodes EXCEPT ![c] = "unset"]
    /\ cch' = [cch EXCEPT ![c] = NilCh]
    /\ ret' = [ret EXCEPT ![c] = NoRet]
    /\ cold' = [cold EXCEPT ![c] = NilCh]
    /\ handler' = [handler EXCEPT ![c] = "serve"]
    /\ UNCHANGED <<vms, mu, now, closed, nCh, resumeLog, resumes, fw, chanErr,
                   panicked, nCalls, watcherVars>>


\* ------------------------------------------------------- doWake goroutine
\* (mutant) a failed wake leaves the record Waking
wakeStatus_staysWaking(err) ==
    IF err = NilErr THEN statusRunning ELSE statusWaking

\* (mutant) a failed wake leaves the record Unknown
wakeStatus_unknownOnErr(err) ==
    IF err = NilErr THEN statusRunning ELSE statusUnknown

\* finishWake's status write
wakeStatus(err) == IF err = NilErr THEN statusRunning ELSE statusPaused

\* ResumeVM returns (ok or an error, its own 30 s deadline included) and
\* finishWake takes the lock; with a record, its first write is info.wakeErr
finishWake(r, ok) ==
    /\ r \in resumes
    /\ mu = Free
    /\ resumes' = resumes \ {r}
    /\ LET err == IF ok THEN NilErr ELSE r.id IN
       IF Has(r.key)
       THEN /\ recs' = [recs EXCEPT ![vms[r.key]].wakeErr = err]
            /\ mu' = FwOwner
            /\ fw' = [key |-> r.key, err |-> err, at |-> "status"]
       ELSE UNCHANGED <<recs, mu, fw>>
    /\ UNCHANGED <<vms, now, closed, nCh, resumeLog, chanErr, panicked, callerVars,
                   watcherVars>>

\* (mutant) a wake completion that also counts as activity
finishWakeStatus_touches ==
    /\ fw.at = "status"
    /\ mu = FwOwner
    /\ recs' = [recs EXCEPT ![vms[fw.key]].status = wakeStatus(fw.err),
                            ![vms[fw.key]].lastSeen = now]
    /\ fw' = [fw EXCEPT !.at = "close"]
    /\ UNCHANGED <<vms, mu, now, closed, nCh, resumeLog, resumes, chanErr, panicked,
                   callerVars, watcherVars>>

\* finishWake, under lock: info.status = statusRunning or statusPaused
finishWakeStatus ==
    /\ fw.at = "status"
    /\ mu = FwOwner
    /\ recs' = [recs EXCEPT ![vms[fw.key]].status = wakeStatus(fw.err)]
    /\ fw' = [fw EXCEPT !.at = "close"]
    /\ UNCHANGED <<vms, mu, now, closed, nCh, resumeLog, resumes, chanErr, panicked,
                   callerVars, watcherVars>>

\* finishWake, under lock: close(info.wakeCh) when it is not nil, then unlock;
\* closing a closed channel panics
finishWakeClose ==
    /\ fw.at = "close"
    /\ mu = FwOwner
    /\ LET ch == Rec(fw.key).wakeCh IN
       IF ch = NilCh
       THEN UNCHANGED <<closed, chanErr, panicked>>
       ELSE IF ch \in closed
       THEN /\ panicked' = TRUE
            /\ UNCHANGED <<closed, chanErr>>
       ELSE /\ closed' = closed \cup {ch}
            /\ chanErr' = chanErr \cup {[ch |-> ch, err |-> fw.err]}
            /\ UNCHANGED panicked
    /\ mu' = Free
    /\ fw' = NoFw
    /\ UNCHANGED <<vms, recs, now, nCh, resumeLog, resumes, callerVars,
                   watcherVars>>

\* ------------------------------------------------------------ idle watcher
\* (mutant) an idle list that also holds the apps being woken
idleApps_listsWaking(timeout) ==
    {k \in Keys : /\ Has(k)
                  /\ Rec(k).status \in {statusRunning, statusWaking}
                  /\ now - Rec(k).lastSeen > timeout}

\* (mutant) idle from timeout on, not only after it
idleApps_notStrict(timeout) ==
    {k \in Keys : /\ Has(k)
                  /\ Rec(k).status = statusRunning
                  /\ now - Rec(k).lastSeen >= timeout}

\* idleApps(timeout): the Running records last seen more than timeout ago
idleApps(timeout) ==
    {k \in Keys : /\ Has(k)
                  /\ Rec(k).status = statusRunning
                  /\ now - Rec(k).lastSeen > timeout}

\* getHostname(appName)
getHostname(k) == IF Has(k) THEN Rec(k).hostname ELSE NoHost

\* (mutant) a pause mark that also forgets when the app was last seen
markPaused_resetsSeen(k) ==
    IF Has(k)
    THEN [recs EXCEPT ![vms[k]].status = statusPaused,
                      ![vms[k]].lastSeen = ZeroTime]
    ELSE recs

\* markPaused(appName)
markPaused(k) ==
    IF Has(k) THEN [recs EXCEPT ![vms[k]].status = statusPaused] ELSE recs

\* runIdleWatcher's select, case <-ticker.C: pauseIdleVMs takes the idle list.
\* The select may take this case with ctx already done when both are ready.
watcherTick ==
    /\ wpc = "select"
    /\ mu = Free
    /\ idle' = idleApps(IdleTimeout)
    /\ wpc' = "tick"
    /\ UNCHANGED <<mgrVars, now, callerVars, wctx, registered, wkey>>

\* (mutant) a loop that only waits for the ticker
watcherExit_ignoresCtx ==
    /\ wpc = "select"
    /\ FALSE
    /\ UNCHANGED vars

\* runIdleWatcher's select, case <-ctx.Done(): return
watcherExit ==
    /\ wpc = "select"
    /\ wctx = "cancelled"
    /\ wpc' = "stopped"
    /\ UNCHANGED <<mgrVars, now, callerVars, wctx, registered, idle,
                   wkey>>

\* (mutant) a loop that asks idleApps again before each pause and skips the
\* apps that are idle no more
pauseIdleVMs_rechecks ==
    /\ wpc = "tick"
    /\ IF idle = {}
       THEN /\ wpc' = "select"
            /\ UNCHANGED <<idle, wkey>>
       ELSE /\ mu = Free
            /\ \E k \in idle :
                 /\ idle' = idle \ {k}
                 /\ IF getHostname(k) = NoHost \/ k \notin idleApps(IdleTimeout)
                    THEN UNCHANGED <<wpc, wkey>>
                    ELSE /\ wkey' = k
                         /\ wpc' = "pausing"
    /\ UNCHANGED <<mgrVars, now, callerVars, wctx, registered>>

\* pauseIdleVMs' loop: the next app of the list, getHostname, then PauseVM
\* is called unless the hostname is empty; the loop ends with the list
pauseIdleVMs ==
    /\ wpc = "tick"
    /\ IF idle = {}
       THEN /\ wpc' = "select"
            /\ UNCHANGED <<idle, wkey>>
       ELSE /\ mu = Free
            /\ \E k \in idle :
                 /\ idle' = idle \ {k}
                 /\ IF getHostname(k) = NoHost
                    THEN UNCHANGED <<wpc, wkey>>
                    ELSE /\ wkey' = k
                         /\ wpc' = "pausing"
    /\ UNCHANGED <<mgrVars, now, callerVars, wctx, registered>>

\* (mutant) a failed PauseVM ends the tick
pauseReturn_abortsTick(ok) ==
    /\ wpc = "pausing"
    /\ wpc' = IF ok THEN "mark" ELSE "select"
    /\ idle' = IF ok THEN idle ELSE {}
    /\ UNCHANGED <<mgrVars, now, callerVars, wctx, registered, wkey>>

\* PauseVM returns: an error is logged and the loop continues
pauseReturn(ok) ==
    /\ wpc = "pausing"
    /\ wpc' = IF ok THEN "mark" ELSE "tick"
    /\ UNCHANGED <<mgrVars, now, callerVars, wctx, registered, idle,
                   wkey>>

\* after a successful PauseVM: rs.stateMgr.markPaused(appName)
watcherMark ==
    /\ wpc = "mark"
    /\ mu = Free
    /\ recs' = markPaused(wkey)
    /\ wpc' = "tick"
    /\ UNCHANGED <<vms, mu, now, closed, nCh, resumeLog, resumes, fw, chanErr,
                   panicked, callerVars, wctx, registered, idle, wkey>>

\* a fault inside pauseIdleVMs: the panic unwinds runIdleWatcher, its deferred
\* function recovers and logs, and the goroutine ends
watcherPanic ==
    /\ wpc \in {"tick", "pausing", "mark"}
    /\ wpc' = "recovered"
    /\ UNCHANGED <<mgrVars, now, callerVars, wctx, registered, idle,
                   wkey>>

\* stopIdleWatcher (Cleanup): with a registry entry, delete it and call cancel;
\* without one, nothing. It takes watcherMu only, never m.mu
stopIdleWatcher ==
    /\ IF registered
       THEN /\ registered' = FALSE
            /\ wctx' = "cancelled"
       ELSE UNCHANGED <<registered, wctx>>
    /\ UNCHANGED <<mgrVars, now, callerVars, wpc, idle, wkey>>

\* the clock
clockTick ==
    /\ now < MaxTime
    /\ now' = now + 1
    /\ UNCHANGED <<mgrVars, callerVars, watcherVars>>

\* ------------------------------------------------------------------ Next
\* the request goroutines' steps after Call, and the doWake goroutines
RunWake ==
    \/ \E c \in Callers : lookup(c)
    \/ \E c \in Callers, r \in DescribeResults : describeReturn(c, r)
    \/ \E c \in Callers : lookupInsert(c)
    \/ \E c \in Callers : ensureRunning(c)
    \/ \E c \in Callers : initiateWake(c)
    \/ \E c \in Callers : initiateWakeCh(c)
    \/ \E c \in Callers : initiateWakeGo(c)
    \/ \E c \in Callers : waitForWake(c)
    \/ \E c \in Callers : wakeSignal(c)
    \/ \E c \in Callers : wakeOutcome(c)
    \/ \E c \in Callers : waitTimeout(c)
    \/ \E c \in Callers : waitCancel(c)
    \/ \E c \in Callers : serveDone(c)
    \/ \E r \in resumes, ok \in BOOLEAN : finishWake(r, ok)
    \/ finishWakeStatus
    \/ finishWakeClose

\* the idle watcher's ticks and the clock
RunWatcher ==
    \/ watcherTick
    \/ pauseIdleVMs
    \/ \E ok \in BOOLEAN : pauseReturn(ok)
    \/ watcherMark
    \/ clockTick

\* requests of the goroutines C for the apps K
Requests(C, K) == \E c \in C, k \in K : Call(c, k)

\* Spec: NumCallers request goroutines, all asking for the same app, with the
\* idle watcher ticking and the clock running
OneApp == {1}
Next == Requests(Callers, OneApp) \/ RunWake \/ RunWatcher

Spec == Init /\ [][Next]_vars

\* SpecWake: the same requests while the watcher's ticker does not fire
NextWake == Requests(Callers, OneApp) \/ RunWake

SpecWake == Init /\ [][NextWake]_vars

\* SpecFair: SpecWake with the timer of a waiting caller firing eventually
\* (time.NewTimer(timeout) in waitForWake) and a caller whose select has taken
\* the signal going on to read the outcome
SpecFair ==
    SpecWake /\ \A c \in Callers : WF_vars(waitTimeout(c)) /\ WF_vars(wakeOutcome(c))

\* SpecResumeFair: SpecWake where the wake machinery runs: the initiator goes
\* through its critical section and starts doWake, ResumeVM returns (doWake
\* bounds it by a 30 s deadline) and finishWake, which gets the lock it asks
\* for, runs to its end. Nothing is assumed about the waiting callers.
SpecResumeFair ==
    /\ SpecWake
    /\ \A c \in Callers : WF_vars(initiateWakeCh(c)) /\ WF_vars(initiateWakeGo(c))
    /\ SF_vars(\E r \in resumes, ok \in BOOLEAN : finishWake(r, ok))
    /\ WF_vars(finishWakeStatus)
    /\ WF_vars(finishWakeClose)

\* SpecAsk: the request goroutines serve requests and ask requests for the
\* same app (or ask without a domain), while the ticker does not fire
NextAsk ==
    \/ Requests(Callers, OneApp)
    \/ \E c \in Callers, d \in OneApp \cup {NoDomain} : AskCall(c, d)
    \/ \E c \in Callers : handleAsk(c)
    \/ RunWake

SpecAsk == Init /\ [][NextAsk]_vars

\* SpecWatch: one request goroutine asking for any of the apps, the idle
\* watcher with its faults, and Cleanup stopping the watcher at any moment
OneCaller == {1}
NextWatch ==
    \/ Requests(OneCaller, Keys)
    \/ RunWake
    \/ RunWatcher
    \/ watcherPanic
    \/ watcherExit
    \/ stopIdleWatcher

SpecWatch == Init /\ [][NextWatch]_vars

\* SpecStop: one request goroutine asking for one app, the idle watcher, and
\* Cleanup stopping the watcher at any moment, any number of times
NextStop ==
    \/ Requests(OneCaller, OneApp)
    \/ RunWake
    \/ RunWatcher
    \/ watcherExit
    \/ stopIdleWatcher

SpecStop == Init /\ [][NextStop]_vars

\* SpecStopFair: SpecStop where the goroutines that can run do run. A holder
\* of m.mu leaves its critical section, so the watcher gets the lock it asks
\* for; PauseVM returns (it is bounded by the client's timeout and by ctx);
\* and a select that finds ctx.Done() ready again and again takes that case
\* in the end, the choice among ready cases being random.
SpecStopFair ==
    /\ SpecStop
    /\ \A c \in Callers : WF_vars(initiateWakeCh(c)) /\ WF_vars(initiateWakeGo(c))
    /\ WF_vars(finishWakeStatus)
    /\ WF_vars(finishWakeClose)
    /\ SF_vars(pauseIdleVMs)
    /\ WF_vars(\E ok \in BOOLEAN : pauseReturn(ok))
    /\ SF_vars(watcherMark)
    /\ SF_vars(watcherExit)

\* ------------------------------------------------------------- helpers
\* resume calls of key k that have not completed: inside ResumeVM, or inside
\* finishWake before its status write
InFlight(k) ==
    Cardinality({r \in resumes : r.key = k})
        + (IF fw.at = "status" /\ fw.key = k THEN 1 ELSE 0)

\* a caller is inside initiateWake's critical section for key k
Initiating(k) == \E c \in Callers : mu = c /\ ckey[c] = k

\* the err the finishWake that closed channel ch was given
ErrOf(ch) == (CHOOSE x \in chanErr : x.ch = ch).err

\* ------------------------------------------------------------------ C1
\* C1: coalescing. While a record is Waking (one wake episode) exactly one
\* resume call of its key is outstanding, however many callers are in
\* ensureRunning for the key; the only moment without one is the initiator's
\* own critical section, before its go m.doWake. A second resume within the
\* episode would be a second outstanding call.
C1_OneResumePerWake ==
    \A k \in Keys :
        (Has(k) /\ Rec(k).status = statusWaking) =>
            IF Initiating(k) THEN InFlight(k) = 0 ELSE InFlight(k) = 1

\* two callers wait on the signal of the same wake and one resume was issued
C1_Witness ==
    \E c, d \in Callers :
        /\ c # d
        /\ pc[c] = "waiting" /\ pc[d] = "waiting"
        /\ ckey[c] = ckey[d]
        /\ cch[c] = cch[d] /\ cch[c] # NilCh /\ cch[c] \notin closed
        /\ Rec(ckey[c]).status = statusWaking
        /\ Cardinality({r \in resumeLog : r.key = ckey[c]}) = 1
        /\ InFlight(ckey[c]) = 1

\* ------------------------------------------------------------------ C2
\* C2: a caller that returns because the signal of its wake fired returns that
\* wake's outcome: the record's address when the wake's resume succeeded, the
\* wake's own error when it failed.
C2_SameOutcome ==
    \A c \in Callers :
        (pc[c] = "returned" /\ ret[c].kind \in {"ok", "wakefailed"}
                            /\ cch[c] # NilCh) =>
            IF ErrOf(cch[c]) = NilErr
            THEN ret[c] = RetOk(IP(ckey[c]))
            ELSE ret[c] = RetErr("wakefailed", ErrOf(cch[c]))

\* ------------------------------------------------------------------ C3
\* C3: while the record of its key is Running, every step of a caller's
\* ensureRunning is the fast path: lookup returns the cached record without a
\* describe call, the status switch returns the record's address with no
\* error, and neither step changes the map or any record, issues a resume or
\* makes the watcher pause.
C3_RunningFastPath ==
    [][\A c \in Callers :
        (/\ pc'[c] # pc[c]
         /\ pc[c] \in {"lookup", "switch"}
         /\ Has(ckey[c])
         /\ Rec(ckey[c]).status = statusRunning) =>
            /\ pc[c] = "lookup" => pc'[c] = "switch"
            /\ pc[c] = "switch" =>
                  /\ pc'[c] = "returned"
                  /\ ret'[c] = RetOk(Rec(ckey[c]).ip)
            /\ UNCHANGED <<vms, recs, resumes, resumeLog, nCh, closed, wpc>>
      ]_vars

\* a call that found its record cached has returned the address of a Running
\* record without waiting
C3_Witness ==
    \E c \in Callers :
        /\ pc[c] = "returned"
        /\ cnodes[c] = "unset"
        /\ cch[c] = NilCh
        /\ ret[c] = RetOk(IP(ckey[c]))
        /\ Rec(ckey[c]).status = statusRunning

\* ------------------------------------------------------------------ C4
\* C4: lookup of a key that has a record returns that record, whatever its
\* state, leaving map and records as they are; and a describe call starts
\* only for a key that has no record at that moment.
C4_LookupCached ==
    [][\A c \in Callers :
        /\ (pc[c] = "lookup" /\ pc'[c] # pc[c] /\ Has(ckey[c])) =>
              /\ pc'[c] = "switch"
              /\ cinfo'[c] = vms[ckey[c]]
              /\ UNCHANGED <<vms, recs>>
        /\ (pc[c] # "describe" /\ pc'[c] = "describe") => ~Has(ckey[c])
      ]_vars

\* lookup has returned a cached NotFound or Paused record to a caller that made
\* no describe call
C4_Witness ==
    \E c \in Callers :
        /\ pc[c] = "switch"
        /\ cnodes[c] = "unset"
        /\ recs[cinfo[c]].status \in {statusNotFound, statusPaused}

\* ------------------------------------------------------------------ C5
\* C5: while the record of its key is NotFound, a caller's lookup returns the
\* cached record (no describe) and the status switch returns the not-found
\* error at once; neither step issues a resume or changes a record; and no
\* caller is ever in initiateWake or waitForWake with a NotFound record.
WakePath == {"iwLock", "iwCh", "iwErr", "waitEnter", "waiting", "woken"}

C5_NotFoundFails ==
    /\ [](\A c \in Callers :
            pc[c] \in WakePath => recs[cinfo[c]].status # statusNotFound)
    /\ [][\A c \in Callers :
            (/\ pc'[c] # pc[c]
             /\ pc[c] \in {"lookup", "switch"}
             /\ Has(ckey[c])
             /\ Rec(ckey[c]).status = statusNotFound) =>
                /\ pc[c] = "lookup" => pc'[c] = "switch"
                /\ pc[c] = "switch" =>
                      /\ pc'[c] = "returned"
                      /\ ret'[c] = RetErr("notfound", 0)
                /\ UNCHANGED <<vms, recs, resumes, resumeLog, nCh, cch>>
       ]_vars

\* a call that found a cached NotFound record has returned the not-found error
C5_Witness ==
    \E c \in Callers :
        /\ pc[c] = "returned"
        /\ cnodes[c] = "unset"
        /\ ret[c] = RetErr("notfound", 0)
        /\ Rec(ckey[c]).status = statusNotFound

\* ------------------------------------------------------------------ C6
\* C6: NotFound is terminal. No step of any goroutine (requests, wake
\* completions, touches, watcher ticks) changes the state of a NotFound record,
\* and while a key's record is NotFound no resume call and no pause call is
\* issued for the key.
ResumesOf(log, k) == {r \in log : r.key = k}

C6_NotFoundTerminal ==
    [][/\ \A i \in DOMAIN recs :
            recs[i].status = statusNotFound => recs'[i].status = statusNotFound
       /\ \A k \in Keys :
            (Has(k) /\ Rec(k).status = statusNotFound) =>
                /\ ResumesOf(resumeLog', k) = ResumesOf(resumeLog, k)
                /\ ~(wpc # "pausing" /\ wpc' = "pausing" /\ wkey' = k)
      ]_vars

\* a NotFound record old enough to be idle had it been Running, with a caller
\* answered not-found and the watcher inside a tick
C6_Witness ==
    \E k \in Keys :
        /\ Has(k)
        /\ Rec(k).status = statusNotFound
        /\ now - Rec(k).lastSeen > IdleTimeout
        /\ wpc = "tick"
        /\ \E c \in Callers : pc[c] = "returned" /\ ret[c].kind = "notfound"

\* ------------------------------------------------------------------ C7
\* C7: every change of a record's state made by a step other than the
\* watcher's markPaused is Unknown->Waking or Paused->Waking (made by a caller
\* in initiateWake), Waking->Running (made by finishWake with no error) or
\* Waking->Paused (made by finishWake with an error).
MarkStep == wpc = "mark" /\ wpc' = "tick"

C7_Transitions ==
    [][\A i \in DOMAIN recs :
        (recs'[i].status # recs[i].status /\ ~MarkStep) =>
            LET old == recs[i].status
                new == recs'[i].status
            IN  \/ /\ old \in {statusUnknown, statusPaused}
                   /\ new = statusWaking
                   /\ \E c \in Callers : pc[c] = "iwLock" /\ pc'[c] = "iwCh"
                \/ /\ old = statusWaking
                   /\ new = statusRunning
                   /\ fw.at = "status" /\ fw.err = NilErr
                \/ /\ old = statusWaking
                   /\ new = statusPaused
                   /\ fw.at = "status" /\ fw.err # NilErr
      ]_vars

\* all four transitions have happened to one record: created Unknown by caller
\* c, woken by a resume that failed (c still waits on that signal), woken
\* again by a resume that succeeded
C7_Witness ==
    \E c, d \in Callers :
        /\ c # d
        /\ nCalls = 2
        /\ cnodes[c] = "Other"
        /\ pc[d] # "idle" /\ cnodes[d] = "unset"
        /\ pc[c] = "waiting"
        /\ cch[c] \in closed /\ ErrOf(cch[c]) # NilErr
        /\ Rec(ckey[c]).status = statusRunning
        /\ Rec(ckey[c]).wakeCh \in closed
        /\ ErrOf(Rec(ckey[c]).wakeCh) = NilErr

\* ------------------------------------------------------------------ C8
\* C8: a call that starts after a wake has completed with an error (the record
\* is Paused, the wake's signal fired) never waits on the signal of that
\* finished wake and never returns that wake's error.
C8_FreshWake ==
    \A c \in Callers :
        cold[c] # NilCh =>
            /\ pc[c] \in {"waiting", "woken"} => cch[c] # cold[c]
            /\ (pc[c] = "returned" /\ ret[c].kind = "wakefailed") =>
                   ret[c].val # ErrOf(cold[c])

\* ------------------------------------------------------------------ C9
\* C9: a waiting caller that returns on its own timeout or cancellation changes
\* nothing but itself: the map, the records, the lock, the in-flight resumes
\* and every other caller are as before; and every caller waiting on a signal
\* that has not fired waits on its record's current signal, whose completion
\* is still outstanding.
Outstanding(k) ==
    \/ InFlight(k) >= 1
    \/ fw.at = "close" /\ fw.key = k
    \/ Initiating(k)

C9_Independent ==
    /\ [](\A c \in Callers :
            (pc[c] = "waiting" /\ cch[c] # NilCh /\ cch[c] \notin closed) =>
                /\ Rec(ckey[c]).wakeCh = cch[c]
                /\ Outstanding(ckey[c]))
    /\ [][\A c \in Callers :
            (/\ pc[c] = "waiting"
             /\ pc'[c] = "returned"
             /\ ret'[c].kind \in {"timeout", "cancelled"}) =>
                /\ UNCHANGED <<vms, recs, mu, closed, resumes, resumeLog, fw>>
                /\ \A d \in Callers \ {c} :
                      pc'[d] = pc[d] /\ cch'[d] = cch[d] /\ ret'[d] = ret[d]
       ]_vars

\* one caller gave up on its timeout; another, waiting on the same signal,
\* then got the wake's success
C9_Witness ==
    \E c, d \in Callers :
        /\ c # d
        /\ pc[c] = "returned" /\ ret[c].kind = "timeout"
        /\ pc[d] = "returned" /\ ret[d].kind = "ok"
        /\ cch[c] = cch[d] /\ cch[c] # NilCh

\* ----------------------------------------------------------------- C10
\* C10: a caller blocked in waitForWake's select eventually returns from
\* ensureRunning, whether or not its wake ever completes.
C10_WaitEnds ==
    \A c \in Callers : (pc[c] = "waiting") ~> (pc[c] = "returned")

\* a caller has returned the timeout error from a wait whose signal never fired
C10_Witness ==
    \E c \in Callers :
        /\ pc[c] = "returned"
        /\ ret[c].kind = "timeout"
        /\ cch[c] \notin closed

\* ----------------------------------------------------------------- C11
\* C11: when the describe call of a lookup fails, ensureRunning returns the
\* lookup error in that step and the map and the records are as before (no
\* record is created); and every lookup of a key that has no record goes on
\* to call describe, also after an earlier describe of the key failed.
C11_DescribeErrNotCached ==
    [][\A c \in Callers :
        /\ (pc[c] = "describe" /\ pc'[c] = "returned") =>
              /\ ret'[c] = RetErr("lookup", 0)
              /\ UNCHANGED <<vms, recs>>
        /\ (pc[c] = "describe" /\ pc'[c] = "insert") => cnodes'[c] # "err"
        /\ (pc[c] = "lookup" /\ pc'[c] # pc[c] /\ ~Has(ckey[c])) =>
              pc'[c] = "describe"
      ]_vars

\* three calls were started by two callers and no record exists, so the call
\* that has completed failed in describe; one caller has just been returned
\* the lookup error and the other is inside a describe call for the key
C11_Witness ==
    \E c, d \in Callers :
        /\ c # d
        /\ nCalls = 3
        /\ \A k \in Keys : ~Has(k)
        /\ pc[c] = "returned" /\ ret[c] = RetErr("lookup", 0)
        /\ pc[d] = "describe" /\ ckey[d] = ckey[c]

\* ----------------------------------------------------------------- C12
\* C12: every key has at most one record and every record belongs to exactly
\* one key; a key's map entry, once set, never changes (no removal, no
\* replacement); and a caller whose lookup has returned holds the record of
\* its key in the map, whatever its own describe call answered.
C12_OneRecordPerKey ==
    /\ [](/\ Len(recs) = Cardinality({k \in Keys : Has(k)})
          /\ \A k \in Keys : vms[k] \in 0..Len(recs)
          /\ \A c \in Callers :
                pc[c] \in WakePath \cup {"switch"} =>
                    /\ Has(ckey[c])
                    /\ cinfo[c] = vms[ckey[c]])
    /\ [][\A k \in Keys : Has(k) => vms'[k] = vms[k]]_vars

\* two first lookups of one key raced: both callers made a describe call, the
\* answers differ, both hold the same record, and the record is the one built
\* from the answer of caller c
C12_Witness ==
    \E c, d \in Callers :
        /\ c # d
        /\ pc[c] = "switch" /\ pc[d] = "switch"
        /\ ckey[c] = ckey[d]
        /\ cnodes[c] = "Paused" /\ cnodes[d] = "none"
        /\ cinfo[c] = cinfo[d]
        /\ Len(recs) = 1
        /\ recs[cinfo[c]].status = nodeStatus(cnodes[c])

\* ----------------------------------------------------------------- C13
\* C13: for every timeout d, idleApps(d) is exactly the set of keys whose
\* record is Running and was last seen strictly more than d before now; the
\* tick's call of it takes that set and changes neither map nor records; and
\* right after a request's touch its key is in idleApps(d) for no d.
C13_IdleKeysExact ==
    /\ [](\A d \in 0..MaxTime : \A k \in Keys :
            k \in idleApps(d) <=>
                (Has(k) /\ Rec(k).status = statusRunning
                        /\ Rec(k).lastSeen + d < now))
    /\ [][(wpc = "select" /\ wpc' = "tick") =>
            /\ idle' = {k \in Keys : Has(k) /\ Rec(k).status = statusRunning
                                      /\ Rec(k).lastSeen + IdleTimeout < now}
            /\ UNCHANGED <<vms, recs>>
       ]_vars
    /\ [][\A c \in Callers :
            (pc[c] = "returned" /\ ret[c].kind = "ok" /\ pc'[c] = "idle") =>
                \A d \in 0..MaxTime : ckey[c] \notin idleApps(d)'
       ]_vars

\* a Running key that the running tick listed as idle has since been touched
\* (last seen now) and is not idle any more
C13_Witness ==
    \E k \in Keys :
        /\ wpc = "tick"
        /\ k \in idle
        /\ Has(k)
        /\ Rec(k).status = statusRunning
        /\ Rec(k).lastSeen = now
        /\ k \notin idleApps(IdleTimeout)

\* ----------------------------------------------------------------- C14
\* C14: touchLastSeen(k) creates nothing: for a key without a record the
\* records are as before, for a key with a record only that record's lastSeen
\* changes (to now); and the touch ServeHTTP makes after a successful
\* ensureRunning changes nothing but the lastSeen of its key's record.
C14_TouchFrame ==
    /\ [](\A k \in Keys :
            touchLastSeen(k) = IF Has(k)
                               THEN [recs EXCEPT ![vms[k]].lastSeen = now]
                               ELSE recs)
    /\ [][\A c \in Callers :
            (pc[c] = "returned" /\ ret[c].kind = "ok" /\ pc'[c] = "idle") =>
                /\ UNCHANGED <<vms, closed, resumes, resumeLog>>
                /\ recs' = [recs EXCEPT ![vms[ckey[c]]].lastSeen = now]
       ]_vars

\* one key has no record; the other's record, listed as idle by the running
\* tick, has been touched since (last seen now) and its other fields are those
\* lookup gave it
C14_Witness ==
    \E k, j \in Keys :
        /\ ~Has(j)
        /\ Has(k)
        /\ wpc = "pausing" /\ wkey = k
        /\ Rec(k).lastSeen = now
        /\ Rec(k) = [hostname |-> Hostname(k), ip |-> IP(k),
                     status |-> statusRunning, lastSeen |-> now,
                     wakeCh |-> NilCh, wakeErr |-> NilErr]

\* ----------------------------------------------------------------- C15
\* C15: the lastSeen of an existing record changes only in a step that finds
\* the record Running.
C15_TouchOnlyRunning ==
    [][\A i \in DOMAIN recs :
        recs'[i].lastSeen # recs[i].lastSeen => recs[i].status = statusRunning
      ]_vars

\* ----------------------------------------------------------------- C16
\* C16: markPaused(k) creates nothing: for a key without a record the records
\* are as before, for a key with a record only that record's status changes
\* (to Paused); and the watcher's mark step changes nothing but the status of
\* the record of the key it paused.
C16_MarkPausedFrame ==
    /\ [](\A k \in Keys :
            markPaused(k) = IF Has(k)
                            THEN [recs EXCEPT ![vms[k]].status = statusPaused]
                            ELSE recs)
    /\ [][(wpc = "mark" /\ wpc' = "tick") =>
            /\ UNCHANGED <<vms, closed, resumes, resumeLog>>
            /\ recs' = [recs EXCEPT ![vms[wkey]].status = statusPaused]
       ]_vars

\* the watcher has paused and marked key k, whose record was never woken: it
\* is Paused with the address and lastSeen it had; another key has no record
C16_Witness ==
    \E k, j \in Keys :
        /\ ~Has(j)
        /\ Has(k)
        /\ wpc = "tick" /\ wkey = k
        /\ Rec(k).status = statusPaused
        /\ Rec(k).wakeCh = NilCh
        /\ Rec(k).hostname = Hostname(k) /\ Rec(k).ip = IP(k)
        /\ Rec(k).lastSeen # ZeroTime /\ now - Rec(k).lastSeen > IdleTimeout

\* ----------------------------------------------------------------- C17
\* C17: within a tick, a PauseVM call that returns goes on to the mark (on
\* success) or back to the loop (on failure) with the rest of the idle list
\* untouched, and a failure changes no record; the loop takes its next key
\* from the list and only an empty list ends the tick; a Running record
\* becomes Paused only in the mark step of the key whose PauseVM returned
\* success.
C17_FaultIsolation ==
    [][/\ (wpc = "pausing" /\ wpc' # wpc) =>
              /\ wpc' \in {"mark", "tick", "recovered"}
              /\ UNCHANGED <<vms, recs, idle, wkey>>
       /\ (wpc # "mark" /\ wpc' = "mark") => wpc = "pausing"
       /\ (wpc = "tick" /\ wpc' = "select") => idle = {}
       /\ (wpc = "tick" /\ wpc' = "pausing") =>
              /\ wkey' \in idle
              /\ idle' = idle \ {wkey'}
       /\ \A i \in DOMAIN recs :
              (recs[i].status = statusRunning /\ recs'[i].status # statusRunning) =>
                  /\ wpc = "mark" /\ wpc' = "tick"
                  /\ i = vms[wkey]
                  /\ recs'[i].status = statusPaused
      ]_vars

\* two keys were idle in the same tick (both Running, never woken, last seen
\* at the same time): the pause of a failed, a is still Running and off the
\* list, and the pause of b has just returned success
C17_Witness ==
    \E a, b \in Keys :
        /\ a # b
        /\ Has(a) /\ Has(b)
        /\ wpc = "mark" /\ wkey = b
        /\ idle = {}
        /\ Rec(a).status = statusRunning /\ Rec(b).status = statusRunning
        /\ Rec(a).wakeCh = NilCh /\ Rec(b).wakeCh = NilCh
        /\ Rec(a).lastSeen = Rec(b).lastSeen
        /\ now - Rec(a).lastSeen > IdleTimeout

\* ----------------------------------------------------------------- C18
\* C18: the watcher goroutine has ended only if its context was cancelled: a
\* fault during a tick does not end the periodic task.
C18_WatcherSurvives ==
    wpc \in {"stopped", "recovered"} => wctx = "cancelled"

\* ----------------------------------------------------------------- C20
\* C20: no tick begins once cancellation has been signalled, and the step
\* that signals it leaves the watcher where it is: a PauseVM call in flight
\* stays in flight and the rest of the tick's list is kept.
C20_CancelStopsFutureTicks ==
    [][/\ (wpc = "select" /\ wpc' = "tick") => wctx = "live"
       /\ (wctx = "live" /\ wctx' = "cancelled") => UNCHANGED <<wpc, wkey, idle>>
      ]_vars

\* ----------------------------------------------------------------- C19
\* C19: stopIdleWatcher can be called in every state (it waits for nothing);
\* the call that finds the registry entry removes it and cancels the context,
\* leaving the watcher goroutine and the state manager as they are; a call
\* that finds no entry changes nothing; the entry never comes back and the
\* context is cancelled exactly when the entry is gone; and once the context
\* is cancelled the watcher loop eventually exits.
Stopped == wpc \in {"stopped", "recovered"}

C19_StopIdempotent ==
    /\ [](ENABLED stopIdleWatcher)
    /\ [](registered <=> wctx = "live")
    /\ [][/\ (registered /\ ~registered') =>
                /\ wctx' = "cancelled"
                /\ UNCHANGED <<mgrVars, callerVars, wpc, idle, wkey>>
          /\ ~registered => UNCHANGED <<registered, wctx>>
       ]_vars
    /\ (wctx = "cancelled") ~> Stopped

\* the watcher, which has paused and marked a key, was stopped (the registry
\* entry is gone, the context cancelled) and its loop has exited
C19_Witness ==
    /\ ~registered
    /\ wctx = "cancelled"
    /\ wpc = "stopped"
    /\ wkey # 0
    /\ Rec(wkey).status = statusPaused
    /\ Rec(wkey).wakeCh = NilCh

\* ----------------------------------------------------------------- C21
\* C21: handleAsk answers 400 without a lookup when the domain is missing,
\* 500 when lookup's describe call fails, and otherwise 404 when the record
\* lookup returned (the one of the domain) is NotFound and 200 when it is in
\* any other state; a goroutine running handleAsk never enters initiateWake
\* or waitForWake and none of its steps, lookup's insertion of a new record
\* apart, changes the map or a record, makes a wake signal or issues a resume.
C21_AskApproves ==
    /\ [](\A c \in Callers : handler[c] = "ask" => pc[c] \notin WakePath)
    /\ [][\A c \in Callers :
            /\ (pc[c] = "idle" /\ handler'[c] = "ask") =>
                  IF pc'[c] = "returned"
                  THEN ret'[c] = Resp(StatusBadRequest)
                  ELSE pc'[c] = "lookup"
            /\ (handler[c] = "ask" /\ pc[c] = "describe"
                                   /\ pc'[c] = "returned") =>
                  ret'[c] = Resp(StatusInternalServerError)
            /\ (handler[c] = "ask" /\ pc[c] = "switch" /\ pc'[c] # pc[c]) =>
                  /\ pc'[c] = "returned"
                  /\ cinfo[c] = vms[ckey[c]]
                  /\ ret'[c] = IF Rec(ckey[c]).status = statusNotFound
                               THEN Resp(StatusNotFound)
                               ELSE Resp(StatusOK)
            /\ (handler[c] = "ask" /\ pc[c] # "insert" /\ pc'[c] # pc[c]) =>
                  UNCHANGED <<vms, recs, resumes, resumeLog, nCh, closed>>
       ]_vars

\* one ask was approved for a Paused record, which is still Paused with no
\* resume ever issued, and another ask was answered 404 or 400
C21_Witness ==
    \E c, d \in Callers :
        /\ c # d
        /\ handler[c] = "ask" /\ pc[c] = "returned"
        /\ ret[c] = Resp(StatusOK)
        /\ Rec(ckey[c]).status = statusPaused
        /\ resumeLog = {}
        /\ handler[d] = "ask" /\ pc[d] = "returned"
        /\ ret[d] = Resp(StatusBadRequest)

\* ----------------------------------------------------------------- C22
\* C22: whenever nobody is inside a critical section of the manager, a record
\* holds a wake signal (info.wakeCh is not nil) exactly when its status is
\* Waking.
C22_SignalIffWaking ==
    mu = Free =>
        \A i \in DOMAIN recs :
            recs[i].wakeCh # NilCh <=> recs[i].status = statusWaking

\* ----------------------------------------------------------------- C23
\* C23: a caller reads a record only while no other goroutine is inside a
\* critical section writing it, and so it never pairs a status of Waking with
\* the wake signal of an earlier wake: the signal a caller starts to wait on
\* while the record is Waking is the record's unfired signal of that wake.
C23_NoTornRead ==
    [][\A c \in Callers :
        /\ (pc[c] \in {"switch", "waitEnter", "woken"} /\ pc'[c] # pc[c]) =>
              mu = Free
        /\ (/\ pc[c] = "waitEnter"
            /\ pc'[c] = "waiting"
            /\ recs[cinfo[c]].status = statusWaking) =>
              /\ cch'[c] # NilCh
              /\ cch'[c] \notin closed
      ]_vars

\* ----------------------------------------------------------------- C24
\* C24: m.mu is held by a request goroutine only between initiateWake's
\* status write and its unlock, and by a doWake goroutine only inside
\* finishWake; so no goroutine holds it while it is in a describe call, while
\* it waits in the select or after it has returned, the doWake goroutines
\* inside ResumeVM do not hold it, and it is free whenever the watcher is
\* inside PauseVM unless one of those critical sections is running.
C24_NoCallUnderLock ==
    /\ mu \in {Free, FwOwner} \cup Callers
    /\ \A c \in Callers : mu = c <=> pc[c] \in {"iwCh", "iwErr"}
    /\ mu = FwOwner <=> fw # NoFw
    /\ \A c \in Callers :
          pc[c] \in {"describe", "waiting", "returned", "idle"} => mu # c
    /\ fw # NoFw => \A r \in resumes : r.key # fw.key

\* a describe call of one request goroutine and a resume call are in progress
\* while the other request goroutine is blocked in its select, and the lock
\* is free
C24_Witness ==
    /\ mu = Free
    /\ resumes # {}
    /\ \E c, d \in Callers :
          /\ pc[c] = "describe"
          /\ pc[d] = "waiting"
          /\ cch[d] \notin closed

\* ----------------------------------------------------------------- C25
\* C25: finishWake's status write with err == nil finds the record Waking and
\* makes it Running, changing nothing else of it; no step of finishWake
\* changes the lastSeen, address or hostname of any record; and a ResumeVM
\* that returns for a key without a record changes neither map nor records
\* nor closes a channel.
C25_WakeKeepsLastSeen ==
    [][/\ (fw.at = "status" /\ fw'.at = "close" /\ fw.err = NilErr) =>
              /\ Rec(fw.key).status = statusWaking
              /\ recs' = [recs EXCEPT ![vms[fw.key]].status = statusRunning]
       /\ fw' # fw =>
              /\ UNCHANGED vms
              /\ \A i \in DOMAIN recs :
                    /\ recs'[i].lastSeen = recs[i].lastSeen
                    /\ recs'[i].ip = recs[i].ip
                    /\ recs'[i].hostname = recs[i].hostname
       /\ \A r \in resumes :
              (r \notin resumes' /\ ~Has(r.key)) =>
                  UNCHANGED <<vms, recs, closed, fw>>
      ]_vars

\* the only call made so far created the record at time 1 and started a wake;
\* the wake has succeeded at a later time, before the caller's touch: the
\* record is Running and was last seen at its creation
C25_Witness ==
    \E c \in Callers :
        /\ nCalls = 1
        /\ pc[c] = "woken"
        /\ ErrOf(cch[c]) = NilErr
        /\ fw = NoFw
        /\ Rec(ckey[c]).status = statusRunning
        /\ Rec(ckey[c]).lastSeen = 1
        /\ now > 1

\* ----------------------------------------------------------------- C26
\* C26: the step of lookup that inserts a record for a key appends exactly one
\* record, built from the describe answer of the inserting caller: NotFound
\* (no address, no hostname) when there was no node; otherwise the first
\* node's hostname and address, last seen now, and status Running for
\* "Running", Paused for "Paused", Unknown for anything else; a new record
\* has no wake signal and no wake error.
C26_InitialState ==
    [][\A c \in Callers :
        (pc[c] = "insert" /\ pc'[c] # pc[c] /\ ~Has(ckey[c])) =>
            /\ Len(recs') = Len(recs) + 1
            /\ vms' = [vms EXCEPT ![ckey[c]] = Len(recs')]
            /\ \A i \in DOMAIN recs : recs'[i] = recs[i]
            /\ LET new == recs'[Len(recs')] IN
               /\ new.wakeCh = NilCh /\ new.wakeErr = NilErr
               /\ IF cnodes[c] = "none"
                  THEN /\ new.status = statusNotFound
                       /\ new.ip = NoIP /\ new.hostname = NoHost
                  ELSE /\ new.ip = IP(ckey[c])
                       /\ new.hostname = Hostname(ckey[c])
                       /\ new.lastSeen = now
                       /\ cnodes[c] = "Running" => new.status = statusRunning
                       /\ cnodes[c] = "Paused" => new.status = statusPaused
                       /\ cnodes[c] = "Other" => new.status = statusUnknown
      ]_vars

\* a record was created Paused at a time later than the start (last seen at
\* its creation) by a caller whose describe call answered "Paused", after a
\* first describe call of the key had failed
C26_Witness ==
    \E c \in Callers :
        /\ pc[c] = "switch"
        /\ cnodes[c] = "Paused"
        /\ Len(recs) = 1
        /\ recs[cinfo[c]] = [hostname |-> Hostname(ckey[c]), ip |-> IP(ckey[c]),
                              status |-> statusPaused, lastSeen |-> now,
                              wakeCh |-> NilCh, wakeErr |-> NilErr]
        /\ now > 1
        /\ nCalls = 2
        /\ \A d \in Callers \ {c} : pc[d] = "idle"

\* ----------------------------------------------------------------- C27
\* C27: every key still on the tick's list can be the next to be paused,
\* whether or not it is idle by now: with the lock free, the loop's step that
\* dispatches PauseVM for it is possible; and once PauseVM has returned
\* success the mark is applied whatever the record's lastSeen is.
C27_NoRecheck ==
    /\ [](\A k \in Keys :
            (wpc = "tick" /\ k \in idle /\ mu = Free) =>
                ENABLED (pauseIdleVMs /\ wpc' = "pausing" /\ wkey' = k))
    /\ []((wpc = "mark" /\ mu = Free) => ENABLED watcherMark)
    /\ [][(wpc = "mark" /\ wpc' = "tick") =>
             Rec(wkey).status' = statusPaused]_vars

\* PauseVM has returned success for a key that the tick listed and that a
\* request has touched since (last seen now, idle no more): the mark comes next
C27_Witness ==
    /\ wpc = "mark"
    /\ wkey \notin idleApps(IdleTimeout)
    /\ Rec(wkey).status = statusRunning
    /\ Rec(wkey).lastSeen = now
    /\ \A c \in Callers : pc[c] = "idle"

\* ----------------------------------------------------------------- C28
\* C28: with no watcher tick a Running record stays Running, so the record's
\* status was Running at some instant of a call exactly if it is Running when
\* the call returns: a call of ensureRunning that returns an address without
\* error returns while the record of its key is Running.
C28_OkOnlyIfRunning ==
    [][\A c \in Callers :
        (pc[c] # "returned" /\ pc'[c] = "returned" /\ ret'[c].kind = "ok") =>
            recs[cinfo[c]].status = statusRunning
      ]_vars

\* ----------------------------------------------------------------- C29
\* C29: with requests and the watcher running together, a key has one resume
\* call outstanding while its record is Waking (none yet only inside the
\* initiator's critical section) and none when its record is in any other
\* state or missing; the watcher's mark step finds the record Running, never
\* Waking; and finishWake's status write finds the record Waking.
C29_WakeAndWatcher ==
    /\ [](\A k \in Keys :
            InFlight(k) = IF /\ Has(k)
                             /\ Rec(k).status = statusWaking
                             /\ ~Initiating(k)
                          THEN 1
                          ELSE 0)
    /\ [][/\ (wpc = "mark" /\ wpc' = "tick") =>
                Rec(wkey).status = statusRunning
          /\ (fw.at = "status" /\ fw'.at = "close") =>
                Rec(fw.key).status = statusWaking
       ]_vars

\* the watcher has paused and marked the app (it was Running when listed)
\* and a request is waking it again, its one resume in flight, while the
\* watcher is inside a tick
C29_Witness ==
    \E k \in Keys :
        /\ Has(k)
        /\ Rec(k).status = statusWaking
        /\ wkey = k
        /\ wpc = "tick"
        /\ InFlight(k) = 1
        /\ Cardinality(resumeLog) = 1
        /\ \E c \in Callers : pc[c] = "waiting" /\ cch[c] = Rec(k).wakeCh

\* ----------------------------------------------------------------- C30
\* C30: no close of a closed channel ever happens; every channel made so far
\* is either closed, by exactly one finishWake, or is the signal of its key's
\* record whose wake is still outstanding (its one resume call in flight, or
\* finishWake or the initiator still inside the critical section); and a
\* closed channel stays closed with the err of the finishWake that closed it.
C30_ClosedOnce ==
    /\ [](~panicked)
    /\ [](\A ch \in 1..nCh :
            IF ch \in closed
            THEN Cardinality({x \in chanErr : x.ch = ch}) = 1
            ELSE \E k \in Keys :
                    /\ Has(k)
                    /\ Rec(k).wakeCh = ch
                    /\ Outstanding(k)
                    /\ InFlight(k) <= 1)
    /\ [][/\ closed \subseteq closed'
          /\ chanErr \subseteq chanErr'
          /\ Cardinality(closed') <= Cardinality(closed) + 1
          /\ closed' # closed => (fw.at = "close" /\ fw' = NoFw)
       ]_vars

\* three wakes of the same record, each with its own channel: of the first
\* two, both closed, one failed and one succeeded, the watcher paused the app
\* after the one that succeeded, and the channel of the third is still open
C30_Witness ==
    /\ nCh = 3
    /\ closed = {1, 2}
    /\ ~panicked
    /\ \E x, y \in chanErr : x.err # NilErr /\ y.err = NilErr
    /\ wkey # 0

\* ----------------------------------------------------------------- C31
\* C31: a record that is Waking is eventually Running or Paused, whatever its
\* waiters do: they may wait on, time out or be cancelled.
C31_WakingEnds ==
    \A k \in Keys :
        (Has(k) /\ Rec(k).status = statusWaking)
            ~> (Has(k) /\ Rec(k).status \in {statusRunning, statusPaused})

\* the only caller there was gave up on its timeout before the signal fired,
\* and finishWake has since taken the record out of Waking
C31_Witness ==
    \E c \in Callers :
        /\ nCalls = 1
        /\ pc[c] = "returned"
        /\ ret[c].kind = "timeout"
        /\ cch[c] # NilCh /\ cch[c] \notin closed
        /\ fw.at = "close"
        /\ Rec(ckey[c]).status \in {statusRunning, statusPaused}

====
